---- MODULE Spec2Model ----
(***************************************************************************)
(* A model of GTIN_Validation_v2.py: the Streamlit script that reads the   *)
(* uploaded files, extracts the GTIN column, sends the identifiers in      *)
(* chunks of 10 through post_with_retry, normalises each 200 response onto *)
(* COLUMNS_OF_INTEREST, concatenates the batch frames per file and the     *)
(* file tables per run, and hands the result to the download section       *)
(* through st.session_state.                                               *)
(***************************************************************************)
EXTENDS Integers, Sequences, FiniteSets, TLC

VARIABLES
    pc,                  \* position of the script: idle, file_loop, batch_loop, post, handle, end_file, finalize, download, crashed
    run_no,              \* number of script runs started in this session
    uploaded_files,      \* st.file_uploader's list for the current run
    file_counter,        \* files taken from uploaded_files so far (line 76)
    all_data,            \* list of per-file tables (line 69)
    individual_results,  \* dict file name -> table, in insertion order (line 70)
    gtins,               \* identifier list of the current file (line 95)
    results_df,          \* list of per-batch frames of the current file (line 102)
    i,                   \* enumerate index of the batch loop (line 104)
    attempt,             \* loop variable of post_with_retry (line 50)
    response,            \* value returned by post_with_retry (line 105)
    call_log,            \* requests and sleeps of the current post_with_retry call, in order
    warnings,            \* st.warning calls of the run, in order
    listed,              \* whether a batch of the current file came back 200 with a product list
    source_log,          \* per file left behind by the loop of line 75: its identifier count and listed
    lost,                \* whether a batch of the run gave no frame because the call returned None or a status other than 200
    progress,            \* value last passed to progress.progress (line 116)
    status_text,         \* numbers last shown by status_text.text (line 117)
    outcome,             \* how the run's main logic ended: none, success, failure, crashed
    session_state,       \* st.session_state: final_df and individual_results, when set
    usage_log,           \* lines appended to usage_log.csv
    offered,             \* what the download section rendered last
    lst, n,              \* arguments of a stand-alone chunk_list call
    ck_i,                \* range position of that generator (line 46)
    yielded              \* chunks that generator has yielded so far

vars == <<pc, run_no, uploaded_files, file_counter, all_data, individual_results,
          gtins, results_df, i, attempt, response, call_log, warnings,
          listed, source_log, lost, progress, status_text, outcome, session_state, usage_log, offered,
          lst, n, ck_i, yielded>>

runVars == <<pc, run_no, uploaded_files, file_counter, all_data, individual_results,
             gtins, results_df, i, attempt, response, call_log, warnings,
             listed, source_log, lost, progress, status_text, outcome, session_state, usage_log, offered>>

chunkVars == <<lst, n, ck_i, yielded>>

----------------------------------------------------------------------------
(* Bounds *)

MaxFiles == 2       \* files uploaded in one run
MaxRuns == 2        \* script runs in one session (SpecSession)
MaxLen == 4         \* length of the enumerated identifier lists (SpecChunk)
MaxN == 3           \* chunk sizes enumerated besides CHUNK_SIZE (SpecChunk)
MaxIds == 21        \* identifiers in the longest sheet of SpecProgress

(* Program constants *)

CHUNK_SIZE == 10    \* chunk_list(gtins, 10)
\* a retry loop one pass short, range(max_retries - 1)
one_pass_short == 5 - 1

max_retries == 5    \* post_with_retry(..., max_retries=5)
TRANSIENT == 503    \* response.status_code == 503

COLUMNS_OF_INTEREST ==
    <<"gtin", "gs1Licence.licenseeName", "gs1Licence.licenceKey",
      "gs1Licence.licenseeGLN", "validationErrors">>

----------------------------------------------------------------------------
(* Python and pandas primitives *)

Min(a, b) == IF a <= b THEN a ELSE b

Max(a, b) == IF a >= b THEN a ELSE b

Range(s) == {s[k] : k \in DOMAIN s}

RECURSIVE Pow2(_)
Pow2(k) == IF k = 0 THEN 1 ELSE 2 * Pow2(k - 1)

RECURSIVE Flatten(_)
Flatten(ss) == IF ss = <<>> THEN <<>> ELSE Head(ss) \o Flatten(Tail(ss))

\* lst[a:b] for 0 <= a
PySlice(s, a, b) == SubSeq(s, a + 1, Min(b, Len(s)))

\* pandas' missing values: NaN (an absent cell) and pd.NA (line 112)
NaN == "NaN"

NA == "<NA>"

----------------------------------------------------------------------------
(* Uploaded files.  An uploaded file is a name and its content; a readable *)
(* content parses to a frame: the header names in order and one function   *)
(* from header to cell per row; an empty cell reads as NaN under dtype=str. *)

Frame(cols, rows) == [columns |-> cols, rows |-> rows]

File(name, content) == [name |-> name, content |-> content]

\* a sheet keyed by SKU, not GTIN
SkuSheet == Frame(<<"SKU">>, <<[SKU |-> "s1"]>>)

\* a GTIN column with no value in it
EmptySheet == Frame(<<"GTIN">>, <<[GTIN |-> NaN]>>)

\* a mixed-case header, an empty cell and a repeated identifier: one batch
SmallSheet ==
    Frame(<<"Name", "Gtin">>,
          <<[Name |-> "x", Gtin |-> "a1"], [Name |-> "y", Gtin |-> NaN],
            [Name |-> "z", Gtin |-> "a2"], [Name |-> "x", Gtin |-> "a1"]>>)

BigIds == <<"b01", "b02", "b03", "b04", "b05", "b06", "b07", "b08", "b09", "b10", "b11">>

\* eleven identifiers: two batches, the second of one identifier
BigSheet == Frame(<<"gtin">>, [k \in DOMAIN BigIds |-> [gtin |-> BigIds[k]]])

\* the k-th of these contents is a sheet whose gtin column holds k identifiers
CountedKeys ==
    <<"ids01", "ids02", "ids03", "ids04", "ids05", "ids06", "ids07", "ids08",
      "ids09", "ids10", "ids11", "ids12", "ids13", "ids14", "ids15", "ids16",
      "ids17", "ids18", "ids19", "ids20", "ids21", "ids22", "ids23", "ids24">>

\* a gtin column of count cells, all the same identifier
CountedSheet(count) == Frame(<<"gtin">>, [k \in 1 .. count |-> [gtin |-> "a1"]])

\* the contents a file may have; "garbage" is one pd.read_csv / pd.read_excel
\* raises on
Contents == {"garbage", "sku", "empty", "small", "big"}

readable(f) == f.content # "garbage"

\* line 83: the frame a readable file parses to
read_file(f) ==
    CASE f.content = "sku" -> SkuSheet
      [] f.content = "empty" -> EmptySheet
      [] f.content = "small" -> SmallSheet
      [] f.content = "big" -> BigSheet
      [] f.content \in Range(CountedKeys) ->
            CountedSheet(CHOOSE k \in DOMAIN CountedKeys : CountedKeys[k] = f.content)

FileNames == {"a.csv", "b.xlsx"}

\* every content under either name, the two-batch sheet under one
Files ==
    {File(nm, c) : nm \in FileNames, c \in Contents \ {"big"}} \cup {File("a.csv", "big")}

RECURSIVE SeqsUpTo(_, _)
SeqsUpTo(S, k) ==
    IF k = 0 THEN {<<>>}
    ELSE LET shorter == SeqsUpTo(S, k - 1)
         IN shorter \cup {Append(s, x) : s \in {t \in shorter : Len(t) = k - 1}, x \in S}

\* what st.file_uploader may hold when the main logic runs (line 68: not empty)
Uploads == SeqsUpTo(Files, MaxFiles) \ {<<>>}

\* the uploads of a session of several runs: one file per run
SessionUploads == {<<File(nm, c)>> : nm \in FileNames, c \in Contents \ {"big"}}

\* the uploads the progress reports are followed over: one file, of 1 to MaxIds
\* identifiers, or one that is skipped
ProgressUploads ==
    {<<File("a.csv", c)>> :
        c \in {"garbage", "sku", "empty"} \cup {CountedKeys[k] : k \in 1 .. MaxIds}}

\* str.lower() on the header names that occur
Lower(col) ==
    CASE col \in {"GTIN", "Gtin", "gtin"} -> "gtin"
      [] col = "SKU" -> "sku"
      [] col = "Name" -> "name"
      [] OTHER -> col

\* normalized_cols = {col.lower(): col for col in df.columns}: a dict, so a later
\* header with the same lower-case form replaces an earlier one
normalized_cols(df) ==
    LET keys == {Lower(df.columns[k]) : k \in DOMAIN df.columns}
        last(key) == CHOOSE k \in DOMAIN df.columns :
                        /\ Lower(df.columns[k]) = key
                        /\ \A j \in DOMAIN df.columns : Lower(df.columns[j]) = key => j <= k
    IN [key \in keys |-> df.columns[last(key)]]

\* Series.dropna(): the non-missing cells, in row order
RECURSIVE dropna(_)
dropna(cells) ==
    IF cells = <<>> THEN <<>>
    ELSE IF Head(cells) \in {NaN, NA} THEN dropna(Tail(cells))
    ELSE <<Head(cells)>> \o dropna(Tail(cells))

\* an extraction that also drops repeated values, .dropna().unique()
extract_gtins_unique(df, gtin_col) ==
    LET kept == dropna([k \in DOMAIN df.rows |-> df.rows[k][gtin_col]])
    IN SelectSeq([k \in DOMAIN kept |-> IF \E j \in 1 .. k - 1 : kept[j] = kept[k]
                                        THEN NaN ELSE kept[k]],
                 LAMBDA x : x # NaN)

\* df[gtin_col].dropna().astype(str).tolist(); the cells are strings already
extract_gtins(df, gtin_col) == dropna([k \in DOMAIN df.rows |-> df.rows[k][gtin_col]])

----------------------------------------------------------------------------
(* chunk_list *)

\* the values of range(0, len(lst), n) from position pos on
RECURSIVE range_from(_, _, _)
range_from(pos, stop, step) ==
    IF pos >= stop THEN <<>> ELSE <<pos>> \o range_from(pos + step, stop, step)

\* a slice one short, lst[i:i + n - 1]
next_chunk_short(l, pos, size) == PySlice(l, pos, pos + size - 1)

\* line 47: lst[i:i + n]
next_chunk(l, pos, size) == PySlice(l, pos, pos + size)

\* list(chunk_list(lst, n))
chunk_list(l, size) ==
    LET starts == range_from(0, Len(l), size)
    IN [k \in DOMAIN starts |-> next_chunk(l, starts[k], size)]

----------------------------------------------------------------------------
(* The remote service.  A response is a status and a body; a body is a     *)
(* JSON value (an object with or without a 'products' list, null, a list,  *)
(* a number) or text that is not JSON.  A product entry is its (path,      *)
(* value) pairs in document order; a nested object gives paths of two keys. *)

None == [none |-> TRUE]

Body(kind, has_products, products) ==
    [kind |-> kind, has_products |-> has_products, products |-> products]

Response(status, body) == [status |-> status, body |-> body]

NoBody == Body("invalid", FALSE, <<>>)

\* the first entry names the first identifier asked for and carries a field outside
\* the schema; the second has a nested licence object and no gtin; neither has a
\* licence key
ProductsFor(chunk) ==
    << << <<<<"gtin">>, chunk[1]>>, <<<<"brandName">>, "acme">> >>,
       << <<<<"gs1Licence", "licenseeName">>, "Acme Inc">>,
          <<<<"gs1Licence", "licenseeGLN">>, "gln1">>,
          <<<<"validationErrors">>, "E1">> >> >>

Bodies(chunk) ==
    { Body("object", TRUE, ProductsFor(chunk)),
      Body("object", TRUE, <<>>),
      Body("object", FALSE, <<>>),
      Body("null", FALSE, <<>>),
      Body("list", FALSE, <<>>),
      Body("number", FALSE, <<>>),
      NoBody }

\* statuses other than 503 that requests.post may return
FinalStatuses == {200, 204, 404}

\* Response.__bool__ is Response.ok: no 4xx or 5xx status
Truthy(r) == r # None /\ r.status < 400

\* a status-200 response whose payload is an object with a 'products' list
has_product_list(r) ==
    r # None /\ r.status = 200 /\ r.body.kind = "object" /\ r.body.has_products

----------------------------------------------------------------------------
(* Result normalisation, lines 107-113 *)

RECURSIVE Dedup(_)
Dedup(s) ==
    IF s = <<>> THEN <<>>
    ELSE LET front == Dedup(SubSeq(s, 1, Len(s) - 1))
             x == s[Len(s)]
         IN IF x \in Range(front) THEN front ELSE Append(front, x)

\* the column name json_normalize gives a path: its keys joined by "."
Join(path) ==
    IF Len(path) = 1 THEN path[1]
    ELSE CASE path = <<"gs1Licence", "licenseeName">> -> "gs1Licence.licenseeName"
           [] path = <<"gs1Licence", "licenceKey">> -> "gs1Licence.licenceKey"
           [] path = <<"gs1Licence", "licenseeGLN">> -> "gs1Licence.licenseeGLN"

\* pd.json_normalize(products): one row per entry, one column per flattened key
\* of any entry, NaN where an entry lacks the key
json_normalize(products) ==
    LET keys(e) == [k \in DOMAIN e |-> Join(e[k][1])]
        cols == Dedup(Flatten([k \in DOMAIN products |-> keys(products[k])]))
        cell(e, c) == IF \E k \in DOMAIN e : Join(e[k][1]) = c
                      THEN e[CHOOSE k \in DOMAIN e : Join(e[k][1]) = c][2]
                      ELSE NaN
    IN Frame(cols, [k \in DOMAIN products |-> [c \in Range(cols) |-> cell(products[k], c)]])

\* products_data[col] = value
set_column(df, col, value) ==
    Frame(IF col \in Range(df.columns) THEN df.columns ELSE Append(df.columns, col),
          [k \in DOMAIN df.rows |->
              [c \in Range(df.columns) \cup {col} |-> IF c = col THEN value ELSE df.rows[k][c]]])

\* for col in COLUMNS_OF_INTEREST: if col not in products_data.columns: ... = pd.NA
RECURSIVE fill_missing(_, _)
fill_missing(df, cols) ==
    IF cols = <<>> THEN df
    ELSE fill_missing(IF Head(cols) \in Range(df.columns) THEN df
                      ELSE set_column(df, Head(cols), NA),
                      Tail(cols))

\* products_data[cols]
select(df, cols) ==
    Frame(cols, [k \in DOMAIN df.rows |-> [c \in Range(cols) |-> df.rows[k][c]]])

\* lines 109-113 without the loop of lines 110-112: only the columns present
normalize_no_fill(products) ==
    LET df == json_normalize(products)
    IN select(df, SelectSeq(COLUMNS_OF_INTEREST, LAMBDA c : c \in Range(df.columns)))

\* lines 109-113: the frame appended to results_df
normalize(products) ==
    select(fill_missing(json_normalize(products), COLUMNS_OF_INTEREST), COLUMNS_OF_INTEREST)

\* a concatenation that takes the frames last to first
pd_concat_reversed(frames) ==
    LET back == [k \in DOMAIN frames |-> frames[Len(frames) + 1 - k]]
        cols == Dedup(Flatten([k \in DOMAIN back |-> back[k].columns]))
        widen(df) == [k \in DOMAIN df.rows |->
                         [c \in Range(cols) |->
                             IF c \in Range(df.columns) THEN df.rows[k][c] ELSE NaN]]
    IN Frame(cols, Flatten([k \in DOMAIN back |-> widen(back[k])]))

\* pd.concat(frames, ignore_index=True): the union of the columns in order of
\* first appearance, the rows of every frame in order, NaN where a frame lacks
\* a column
pd_concat(frames) ==
    LET cols == Dedup(Flatten([k \in DOMAIN frames |-> frames[k].columns]))
        widen(df) == [k \in DOMAIN df.rows |->
                         [c \in Range(cols) |->
                             IF c \in Range(df.columns) THEN df.rows[k][c] ELSE NaN]]
    IN Frame(cols, Flatten([k \in DOMAIN frames |-> widen(frames[k])]))

----------------------------------------------------------------------------
(* The script's state *)

\* individual_results[name] = table on a dict kept as its items in insertion
\* order: an existing key keeps its place and takes the new value
dict_set(d, key, value) ==
    IF \E k \in DOMAIN d : d[k].name = key
    THEN [k \in DOMAIN d |-> IF d[k].name = key THEN [name |-> key, table |-> value] ELSE d[k]]
    ELSE Append(d, [name |-> key, table |-> value])

\* the batches of the current file: enumerate(chunk_list(gtins, 10))
Chunks == chunk_list(gtins, CHUNK_SIZE)

\* the file the loop of line 75 is at
CurrentFile == uploaded_files[file_counter]

Request(a, body) == [event |-> "request", attempt |-> a, body |-> body]

Sleep(a, secs) == [event |-> "sleep", attempt |-> a, secs |-> secs]

NothingOffered == [shown |-> FALSE]

\* the responses a request for chunk may get, 503 aside
Responses(chunk) ==
    {Response(200, b) : b \in Bodies(chunk)}
    \cup {Response(st, NoBody) : st \in FinalStatuses \ {200}}

Init ==
    /\ pc = "idle"
    /\ run_no = 0
    /\ uploaded_files = <<>>
    /\ file_counter = 0
    /\ all_data = <<>>
    /\ individual_results = <<>>
    /\ gtins = <<>>
    /\ results_df = <<>>
    /\ i = 0
    /\ attempt = 0
    /\ response = None
    /\ call_log = <<>>
    /\ warnings = <<>>
    /\ listed = FALSE
    /\ source_log = <<>>
    /\ lost = FALSE
    /\ progress = [num |-> 0, den |-> 1]
    /\ status_text = [processed |-> 0, total |-> 0, percent |-> 0]
    /\ outcome = "none"
    /\ session_state = [user_name |-> "bryon"]
    /\ usage_log = <<>>
    /\ offered = NothingOffered
    /\ lst = <<>>
    /\ n = 1
    /\ ck_i = 0
    /\ yielded = <<>>

----------------------------------------------------------------------------
(* One run of the main logic, lines 68-133, and the download section *)

\* lines 68-73: a script run with files uploaded starts from a fresh namespace
StartRun(files, limit) ==
    /\ pc \in {"idle", "crashed"}
    /\ run_no < limit
    /\ run_no' = run_no + 1
    /\ uploaded_files' = files
    /\ file_counter' = 0
    /\ all_data' = <<>>
    /\ individual_results' = <<>>
    /\ gtins' = <<>>
    /\ results_df' = <<>>
    /\ i' = 0
    /\ attempt' = 0
    /\ response' = None
    /\ call_log' = <<>>
    /\ warnings' = <<>>
    /\ listed' = FALSE
    /\ source_log' = <<>>
    /\ lost' = FALSE
    /\ progress' = [num |-> 0, den |-> 1]
    /\ status_text' = [processed |-> 0, total |-> 0, percent |-> 0]
    /\ outcome' = "none"
    /\ offered' = NothingOffered
    /\ pc' = "file_loop"
    /\ UNCHANGED <<session_state, usage_log, chunkVars>>

\* lines 75-86: the next file cannot be read
ReadFails ==
    /\ pc = "file_loop"
    /\ file_counter < Len(uploaded_files)
    /\ file_counter' = file_counter + 1
    /\ ~readable(uploaded_files[file_counter + 1])
    /\ warnings' = Append(warnings, [file |-> file_counter + 1, kind |-> "unreadable"])
    /\ source_log' = Append(source_log, [ids |-> 0, listed |-> FALSE])
    /\ UNCHANGED <<pc, run_no, uploaded_files, all_data, individual_results, gtins, results_df,
                   i, attempt, response, call_log, listed, lost, progress, status_text, outcome,
                   session_state, usage_log, offered, chunkVars>>

\* lines 75-92: the next file has no column named gtin in any case
NoGtinColumn ==
    /\ pc = "file_loop"
    /\ file_counter < Len(uploaded_files)
    /\ file_counter' = file_counter + 1
    /\ LET f == uploaded_files[file_counter + 1]
       IN /\ readable(f)
          /\ "gtin" \notin DOMAIN normalized_cols(read_file(f))
    /\ warnings' = Append(warnings, [file |-> file_counter + 1, kind |-> "no_column"])
    /\ source_log' = Append(source_log, [ids |-> 0, listed |-> FALSE])
    /\ UNCHANGED <<pc, run_no, uploaded_files, all_data, individual_results, gtins, results_df,
                   i, attempt, response, call_log, listed, lost, progress, status_text, outcome,
                   session_state, usage_log, offered, chunkVars>>

\* lines 75-98: the column holds no identifier
NoGtins ==
    /\ pc = "file_loop"
    /\ file_counter < Len(uploaded_files)
    /\ file_counter' = file_counter + 1
    /\ LET f == uploaded_files[file_counter + 1]
       IN /\ readable(f)
          /\ "gtin" \in DOMAIN normalized_cols(read_file(f))
          /\ gtins' = extract_gtins(read_file(f), normalized_cols(read_file(f))["gtin"])
    /\ gtins' = <<>>
    /\ warnings' = Append(warnings, [file |-> file_counter + 1, kind |-> "no_gtins"])
    /\ source_log' = Append(source_log, [ids |-> 0, listed |-> FALSE])
    /\ UNCHANGED <<pc, run_no, uploaded_files, all_data, individual_results, results_df, i,
                   attempt, response, call_log, listed, lost, progress, status_text, outcome,
                   session_state, usage_log, offered, chunkVars>>

\* a batch loop that starts from what an earlier run left in st.session_state
\* instead of results_df = []
BeginFile_from_session ==
    /\ pc = "file_loop"
    /\ file_counter < Len(uploaded_files)
    /\ file_counter' = file_counter + 1
    /\ LET f == uploaded_files[file_counter + 1]
       IN /\ readable(f)
          /\ "gtin" \in DOMAIN normalized_cols(read_file(f))
          /\ gtins' = extract_gtins(read_file(f), normalized_cols(read_file(f))["gtin"])
    /\ gtins' # <<>>
    /\ progress' = [num |-> 0, den |-> 1]
    /\ results_df' = IF "final_df" \in DOMAIN session_state
                     THEN <<session_state.final_df>> ELSE <<>>
    /\ i' = 0
    /\ listed' = FALSE
    /\ pc' = "batch_loop"
    /\ UNCHANGED <<run_no, uploaded_files, all_data, individual_results, attempt, response,
                   call_log, warnings, source_log, lost, status_text, outcome, session_state,
                   usage_log, offered, chunkVars>>

\* lines 75-102: identifiers extracted, the batch loop starts
BeginFile ==
    /\ pc = "file_loop"
    /\ file_counter < Len(uploaded_files)
    /\ file_counter' = file_counter + 1
    /\ LET f == uploaded_files[file_counter + 1]
       IN /\ readable(f)
          /\ "gtin" \in DOMAIN normalized_cols(read_file(f))
          /\ gtins' = extract_gtins(read_file(f), normalized_cols(read_file(f))["gtin"])
    /\ gtins' # <<>>
    /\ progress' = [num |-> 0, den |-> 1]
    /\ results_df' = <<>>
    /\ i' = 0
    /\ listed' = FALSE
    /\ pc' = "batch_loop"
    /\ UNCHANGED <<run_no, uploaded_files, all_data, individual_results, attempt, response,
                   call_log, warnings, source_log, lost, status_text, outcome, session_state,
                   usage_log, offered, chunkVars>>

\* lines 104-105: the generator yields batch i and post_with_retry is entered
NextBatch ==
    /\ pc = "batch_loop"
    /\ i < Len(Chunks)
    /\ attempt' = 0
    /\ call_log' = <<>>
    /\ pc' = "post"
    /\ UNCHANGED <<run_no, uploaded_files, file_counter, all_data, individual_results, gtins,
                   results_df, i, response, warnings, listed, source_log, lost, progress,
                   status_text, outcome, session_state, usage_log, offered, chunkVars>>

\* line 104: the generator is exhausted
BatchesDone ==
    /\ pc = "batch_loop"
    /\ i >= Len(Chunks)
    /\ pc' = "end_file"
    /\ UNCHANGED <<run_no, uploaded_files, file_counter, all_data, individual_results, gtins,
                   results_df, i, attempt, response, call_log, warnings, listed, source_log,
                   lost, progress, status_text, outcome, session_state, usage_log, offered,
                   chunkVars>>

----------------------------------------------------------------------------
(* post_with_retry, lines 49-59: one action per pass of its loop.  attempt  *)
(* is the loop variable, gone with the call's frame when the call returns;  *)
(* the body posted is list(chunk).                                          *)

\* a linear backoff, time.sleep(2 * attempt)
backoff_linear(a) == 2 * a

\* a backoff that does not wait when no attempt is left
backoff_none_after_last(a) == IF a + 1 < max_retries THEN Pow2(a) ELSE 0

\* time.sleep(2 ** attempt)
backoff(a) == Pow2(a)

\* lines 52-55: the response has status 503
Attempt503 ==
    /\ pc = "post"
    /\ attempt < max_retries
    /\ call_log' = call_log \o <<Request(attempt, Chunks[i + 1]), Sleep(attempt, backoff(attempt))>>
    /\ attempt' = attempt + 1
    /\ UNCHANGED <<pc, run_no, uploaded_files, file_counter, all_data, individual_results, gtins,
                   results_df, i, response, warnings, listed, source_log, lost, progress,
                   status_text, outcome, session_state, usage_log, offered, chunkVars>>

\* lines 52, 57-58: requests.post raises a RequestException
AttemptRaises ==
    /\ pc = "post"
    /\ attempt < max_retries
    /\ call_log' = call_log \o <<Request(attempt, Chunks[i + 1]), Sleep(attempt, backoff(attempt))>>
    /\ attempt' = attempt + 1
    /\ UNCHANGED <<pc, run_no, uploaded_files, file_counter, all_data, individual_results, gtins,
                   results_df, i, response, warnings, listed, source_log, lost, progress,
                   status_text, outcome, session_state, usage_log, offered, chunkVars>>

\* lines 52-56: any other status is returned at once
AttemptReturns(r) ==
    /\ pc = "post"
    /\ attempt < max_retries
    /\ r.status # TRANSIENT
    /\ call_log' = Append(call_log, Request(attempt, Chunks[i + 1]))
    /\ response' = r
    /\ attempt' = 0
    /\ pc' = "handle"
    /\ UNCHANGED <<run_no, uploaded_files, file_counter, all_data, individual_results, gtins,
                   results_df, i, warnings, listed, source_log, lost, progress, status_text,
                   outcome, session_state, usage_log, offered, chunkVars>>

\* line 59: the loop ran out, None is returned
Exhausted ==
    /\ pc = "post"
    /\ attempt >= max_retries
    /\ response' = None
    /\ attempt' = 0
    /\ pc' = "handle"
    /\ UNCHANGED <<run_no, uploaded_files, file_counter, all_data, individual_results, gtins,
                   results_df, i, call_log, warnings, listed, source_log, lost, progress,
                   status_text, outcome, session_state, usage_log, offered, chunkVars>>

----------------------------------------------------------------------------
(* Lines 106-117: what the batch loop does with the returned value *)

\* line 106 without its status test, "if response:"
handling_any_ok_status(r) ==
    IF ~Truthy(r) THEN "skip"
    ELSE CASE r.body.kind \in {"invalid", "null", "number"} -> "raise"
           [] r.body.kind = "list" -> "skip"
           [] r.body.kind = "object" -> IF r.body.has_products THEN "frame" ELSE "skip"

\* lines 106-108 on a returned value: "skip" when the test of line 106 or of
\* line 108 is false, "raise" when response.json() or the test of line 108
\* raises (text that is not JSON; 'products' in None, in a number), "frame"
\* when a product list is there
handling(r) ==
    IF ~(Truthy(r) /\ r.status = 200) THEN "skip"
    ELSE CASE r.body.kind \in {"invalid", "null", "number"} -> "raise"
           [] r.body.kind = "list" -> "skip"
           [] r.body.kind = "object" -> IF r.body.has_products THEN "frame" ELSE "skip"

\* the bar's value without the min(.., 1.0)
bar_value_unclamped(idx, total) == [num |-> (idx + 1) * 10, den |-> Max(10, total)]

\* line 116: min((i + 1) / max(1, len(gtins) / 10), 1.0), as a fraction
bar_value(idx, total) ==
    IF (idx + 1) * 10 >= Max(10, total) THEN [num |-> 1, den |-> 1]
    ELSE [num |-> (idx + 1) * 10, den |-> Max(10, total)]

\* lines 115, 117: f"{percent:.2f}" of percent = (count / total) * 100, in
\* hundredths of a percent: the nearest hundredth, a tie going to the even one
percent_2f(count, total) ==
    LET q == (count * 10000) \div total
        r == (count * 10000) % total
    IN IF 2 * r > total \/ (2 * r = total /\ q % 2 = 1) THEN q + 1 ELSE q

\* lines 115-117, then the loop of line 104 advances
Report ==
    /\ progress' = bar_value(i, Len(gtins))
    /\ status_text' = [processed |-> (i + 1) * 10, total |-> Len(gtins),
                       percent |-> percent_2f((i + 1) * 10, Len(gtins))]
    /\ i' = i + 1
    /\ listed' = (listed \/ has_product_list(response))
    /\ lost' = (lost \/ response = None \/ response.status # 200)
    /\ call_log' = <<>>
    /\ pc' = "batch_loop"

\* lines 106-117: the batch gives no frame
HandleSkip ==
    /\ pc = "handle"
    /\ handling(response) = "skip"
    /\ Report
    /\ UNCHANGED <<run_no, uploaded_files, file_counter, all_data, individual_results, gtins,
                   results_df, attempt, response, warnings, source_log, outcome, session_state,
                   usage_log, offered, chunkVars>>

\* lines 106-117: the batch's products are normalised and appended
HandleProducts ==
    /\ pc = "handle"
    /\ handling(response) = "frame"
    /\ results_df' = Append(results_df, normalize(response.body.products))
    /\ Report
    /\ UNCHANGED <<run_no, uploaded_files, file_counter, all_data, individual_results, gtins,
                   attempt, response, warnings, source_log, outcome, session_state, usage_log,
                   offered, chunkVars>>

\* lines 107-108: the exception is caught nowhere and ends the script run
HandleRaises ==
    /\ pc = "handle"
    /\ handling(response) = "raise"
    /\ outcome' = "crashed"
    /\ pc' = "crashed"
    /\ call_log' = <<>>
    /\ UNCHANGED <<run_no, uploaded_files, file_counter, all_data, individual_results, gtins,
                   results_df, i, attempt, response, warnings, listed, source_log, lost,
                   progress, status_text, session_state, usage_log, offered, chunkVars>>

----------------------------------------------------------------------------
(* Lines 119-133 and the download section *)

\* lines 119-122: the file's frames become its table
FileYieldsTable ==
    /\ pc = "end_file"
    /\ results_df # <<>>
    /\ LET final_result == pd_concat(results_df)
       IN /\ all_data' = Append(all_data, final_result)
          /\ individual_results' = dict_set(individual_results, CurrentFile.name, final_result)
    /\ source_log' = Append(source_log, [ids |-> Len(gtins), listed |-> listed])
    /\ pc' = "file_loop"
    /\ UNCHANGED <<run_no, uploaded_files, file_counter, gtins, results_df, i, attempt, response,
                   call_log, warnings, listed, lost, progress, status_text, outcome,
                   session_state, usage_log, offered, chunkVars>>

\* lines 123-124: no batch gave a frame
FileYieldsNothing ==
    /\ pc = "end_file"
    /\ results_df = <<>>
    /\ warnings' = Append(warnings, [file |-> file_counter, kind |-> "no_results"])
    /\ source_log' = Append(source_log, [ids |-> Len(gtins), listed |-> listed])
    /\ pc' = "file_loop"
    /\ UNCHANGED <<run_no, uploaded_files, file_counter, all_data, individual_results, gtins,
                   results_df, i, attempt, response, call_log, listed, lost, progress,
                   status_text, outcome, session_state, usage_log, offered, chunkVars>>

\* log_usage(user, file_count), lines 61-65, without the timestamp
log_usage(log, user, file_count) == Append(log, [user |-> user, file_count |-> file_count])

\* lines 126-131: the tables are combined and stored in st.session_state
FinishWithData ==
    /\ pc = "file_loop"
    /\ file_counter >= Len(uploaded_files)
    /\ all_data # <<>>
    /\ session_state' = [user_name |-> session_state.user_name,
                         final_df |-> pd_concat(all_data),
                         individual_results |-> individual_results]
    /\ usage_log' = log_usage(usage_log, session_state.user_name, Len(uploaded_files))
    /\ outcome' = "success"
    /\ pc' = "download"
    /\ UNCHANGED <<run_no, uploaded_files, file_counter, all_data, individual_results, gtins,
                   results_df, i, attempt, response, call_log, warnings, listed, source_log,
                   lost, progress, status_text, offered, chunkVars>>

\* lines 132-133: st.error, and the script goes on
FinishWithoutData ==
    /\ pc = "file_loop"
    /\ file_counter >= Len(uploaded_files)
    /\ all_data = <<>>
    /\ outcome' = "failure"
    /\ pc' = "download"
    /\ UNCHANGED <<run_no, uploaded_files, file_counter, all_data, individual_results, gtins,
                   results_df, i, attempt, response, call_log, warnings, listed, source_log,
                   lost, progress, status_text, session_state, usage_log, offered, chunkVars>>

\* lines 136-179: the download buttons are built from st.session_state
Download ==
    /\ pc = "download"
    /\ offered' = IF {"final_df", "individual_results"} \subseteq DOMAIN session_state
                  THEN [shown |-> TRUE,
                        combined |-> session_state.final_df,
                        individual |-> session_state.individual_results]
                  ELSE NothingOffered
    /\ pc' = "idle"
    /\ UNCHANGED <<run_no, uploaded_files, file_counter, all_data, individual_results, gtins,
                   results_df, i, attempt, response, call_log, warnings, listed, source_log,
                   lost, progress, status_text, outcome, session_state, usage_log, chunkVars>>

RunStep ==
    \/ ReadFails \/ NoGtinColumn \/ NoGtins \/ BeginFile
    \/ NextBatch \/ BatchesDone
    \/ Attempt503 \/ AttemptRaises \/ Exhausted
    \/ (pc = "post" /\ \E r \in Responses(Chunks[i + 1]) : AttemptReturns(r))
    \/ HandleSkip \/ HandleProducts \/ HandleRaises
    \/ FileYieldsTable \/ FileYieldsNothing
    \/ FinishWithData \/ FinishWithoutData \/ Download

\* one script run in a fresh session, over any upload of at most MaxFiles files
Next == (pc \in {"idle", "crashed"} /\ \E files \in Uploads : StartRun(files, 1)) \/ RunStep

Spec == Init /\ [][Next]_vars

----------------------------------------------------------------------------
(* chunk_list on its own: the generator of lines 45-47, one yield a step *)

Ids == {"a1", "a2"}

\* the lists chunk_list is stepped over: every list of at most MaxLen identifiers
\* and the identifier lists of the sheets
ChunkInputs == SeqsUpTo(Ids, MaxLen) \cup {BigIds, extract_gtins(SmallSheet, "Gtin")}

ChunkSizes == (1 .. MaxN) \cup {CHUNK_SIZE}

InitChunk ==
    /\ pc = "idle"
    /\ run_no = 0
    /\ uploaded_files = <<>>
    /\ file_counter = 0
    /\ all_data = <<>>
    /\ individual_results = <<>>
    /\ gtins = <<>>
    /\ results_df = <<>>
    /\ i = 0
    /\ attempt = 0
    /\ response = None
    /\ call_log = <<>>
    /\ warnings = <<>>
    /\ listed = FALSE
    /\ source_log = <<>>
    /\ lost = FALSE
    /\ progress = [num |-> 0, den |-> 1]
    /\ status_text = [processed |-> 0, total |-> 0, percent |-> 0]
    /\ outcome = "none"
    /\ session_state = [user_name |-> "bryon"]
    /\ usage_log = <<>>
    /\ offered = NothingOffered
    /\ lst \in ChunkInputs
    /\ n \in ChunkSizes
    /\ ck_i = 0
    /\ yielded = <<>>

\* lines 46-47: range has a next value i, and lst[i:i + n] is yielded
ChunkYield ==
    /\ ck_i < Len(lst)
    /\ yielded' = Append(yielded, next_chunk(lst, ck_i, n))
    /\ ck_i' = ck_i + n
    /\ UNCHANGED <<runVars, lst, n>>

NextChunk == ChunkYield

SpecChunk == InitChunk /\ [][NextChunk]_vars

\* a session of at most MaxRuns script runs, each over one file
NextSession ==
    (pc \in {"idle", "crashed"} /\ \E files \in SessionUploads : StartRun(files, MaxRuns)) \/ RunStep

SpecSession == Init /\ [][NextSession]_vars

\* one script run over one file of any length up to MaxIds
NextProgress ==
    (pc \in {"idle", "crashed"} /\ \E files \in ProgressUploads : StartRun(files, 1)) \/ RunStep

SpecProgress == Init /\ [][NextProgress]_vars

----------------------------------------------------------------------------
(* Vocabulary of the properties *)

\* the run's main logic has ended: st.success, st.error, or an uncaught exception
RunEnded == outcome # "none"

\* the run reached lines 126-133
Finalized == outcome \in {"success", "failure"}

NumRequests(log) == Cardinality({k \in DOMAIN log : log[k].event = "request"})

\* the sleeps of a call, in order
SleepsOf(log) ==
    LET at == SelectSeq(log, LAMBDA e : e.event = "sleep")
    IN [k \in DOMAIN at |-> at[k].secs]

\* 2^0 .. 2^4
Delays == <<1, 2, 4, 8, 16>>

\* k failed attempts for body: request j, then a sleep of 2^j, for j = 0 .. k-1
RECURSIVE FailedPrefix(_, _)
FailedPrefix(k, body) ==
    IF k = 0 THEN <<>>
    ELSE FailedPrefix(k - 1, body) \o <<Request(k - 1, body), Sleep(k - 1, Delays[k])>>

FiveColumns ==
    <<"gtin", "gs1Licence.licenseeName", "gs1Licence.licenceKey",
      "gs1Licence.licenseeGLN", "validationErrors">>

MissingMarkers == {NaN, NA}

\* every table the script holds
TablesHeld ==
    Range(results_df) \cup Range(all_data)
    \cup {individual_results[k].table : k \in DOMAIN individual_results}
    \cup (IF "final_df" \in DOMAIN session_state
          THEN {session_state.final_df}
               \cup {session_state.individual_results[k].table :
                        k \in DOMAIN session_state.individual_results}
          ELSE {})

\* the value a response entry carries for a schema column, if any
EntryValues(entry, col) ==
    LET path == CASE col = "gs1Licence.licenseeName" -> <<"gs1Licence", "licenseeName">>
                  [] col = "gs1Licence.licenceKey" -> <<"gs1Licence", "licenceKey">>
                  [] col = "gs1Licence.licenseeGLN" -> <<"gs1Licence", "licenseeGLN">>
                  [] OTHER -> <<col>>
    IN {entry[k][2] : k \in {j \in DOMAIN entry : entry[j][1] \in {path, <<col>>}}}

CeilDiv(a, b) == (a + b - 1) \div b

----------------------------------------------------------------------------
(* C1..C10 *)

\* C1: once a run has finalized with success, the Combined Table is the
\* concatenation, in order, of the tables of the mapping file name -> table, so
\* that every combined record lies in exactly one of them.
C1_CombinedIsConcatOfMapping ==
    outcome = "success" =>
        LET m == session_state.individual_results
        IN /\ session_state.final_df.columns = FiveColumns
           /\ session_state.final_df.rows = Flatten([k \in DOMAIN m |-> m[k].table.rows])

\* C2: when all 5 attempts of post_with_retry failed transiently, exactly 5
\* requests were made, no sixth follows, None is returned, and the caller appends
\* no frame, raises nothing and advances to the next batch.
C2_ExhaustionIsAbsorbed ==
    [][ /\ attempt <= 5
        /\ (pc = "post" /\ attempt = 5) =>
              /\ NumRequests(call_log) = 5
              /\ pc' = "handle" /\ response' = None /\ call_log' = call_log
        /\ (pc = "handle" /\ response = None) =>
              /\ NumRequests(call_log) = 5
              /\ pc' = "batch_loop" /\ i' = i + 1
              /\ results_df' = results_df /\ outcome' = outcome ]_vars

\* the first batch of a two-batch file was exhausted and the second is being posted
C2_Witness ==
    /\ pc = "post" /\ i = 1 /\ Len(Chunks) = 2
    /\ response = None /\ results_df = <<>>
    /\ NumRequests(call_log) > 0

\* C3: a call that returns a response after k transient failures (k in 0..4) has
\* made exactly k+1 requests and slept 2^0, .., 2^(k-1), each sleep between the
\* failed request and the next one; while the call runs, every failed attempt
\* has used one attempt of the budget of 5.
C3_BackoffSchedule ==
    /\ pc = "post" =>
          /\ attempt \in 0 .. 5
          /\ call_log = FailedPrefix(attempt, Chunks[i + 1])
    /\ (pc = "handle" /\ response # None) =>
          /\ response.status # 503
          /\ \E k \in 0 .. 4 :
                /\ call_log = Append(FailedPrefix(k, Chunks[i + 1]), Request(k, Chunks[i + 1]))
                /\ NumRequests(call_log) = k + 1
                /\ SleepsOf(call_log) = SubSeq(Delays, 1, k)

\* three failures, then a 200: four requests, sleeps 1, 2, 4
C3_Witness ==
    /\ pc = "handle" /\ response # None /\ response.status = 200
    /\ NumRequests(call_log) = 4
    /\ SleepsOf(call_log) = <<1, 2, 4>>

\* C4: a response whose status is neither 503 nor 200 is returned by the attempt
\* that received it, with no sleep and no further request, and the caller appends
\* no frame and advances to the next batch.
C4_OtherStatusIsFinal ==
    [][ /\ (pc = "post" /\ pc' = "handle" /\ response' # None) =>
              call_log' = Append(call_log, Request(attempt, Chunks[i + 1]))
        /\ (pc = "handle" /\ response # None /\ response.status \notin {200, 503}) =>
              /\ call_log[Len(call_log)].event = "request"
              /\ pc' = "batch_loop" /\ i' = i + 1
              /\ results_df' = results_df /\ outcome' = outcome ]_vars

\* a 404 on the first batch of a two-batch file, the second batch being posted
C4_Witness ==
    /\ pc = "post" /\ i = 1 /\ Len(Chunks) = 2
    /\ response # None /\ response.status = 404 /\ results_df = <<>>
    /\ NumRequests(call_log) > 0

\* C5: a run ends in the failure state exactly when it collected no table, and
\* then builds no Combined Table; every other run ends in the success state with
\* a Combined Table and a Run Result Set.
C5_FailureIffNoTables ==
    RunEnded =>
        /\ (outcome = "failure") <=> (all_data = <<>>)
        /\ outcome = "failure" => "final_df" \notin DOMAIN session_state
        /\ all_data # <<>> =>
              /\ outcome = "success"
              /\ {"final_df", "individual_results"} \subseteq DOMAIN session_state

\* C6: what the download section offers is the result of the most recent run
\* only; after a run that collected no table it offers nothing.
C6_DownloadOffersLatestRunOnly ==
    (pc = "idle" /\ Finalized) =>
        IF outcome = "failure" THEN offered = NothingOffered
        ELSE /\ offered # NothingOffered
             /\ offered.individual = individual_results

\* C7: at the end of a run a source has an entry in the mapping exactly when it
\* had identifiers and one of its batches came back 200 with a product list;
\* every source without an entry was warned about.
C7_EntryIffProductList ==
    Finalized =>
        \A k \in DOMAIN uploaded_files :
            LET has_entry == \E e \in DOMAIN individual_results :
                                individual_results[e].name = uploaded_files[k].name
                qualifies == source_log[k].ids > 0 /\ source_log[k].listed
            IN /\ has_entry <=> qualifies
               /\ ~has_entry => \E w \in DOMAIN warnings : warnings[w].file = k

\* C8: a status-200 response without a product list contributes no frame and
\* raises nothing; the loop advances to the next batch.
C8_NoProductListNoError ==
    [][ (pc = "handle" /\ response # None /\ response.status = 200
         /\ ~has_product_list(response)) =>
            /\ pc' = "batch_loop" /\ i' = i + 1
            /\ results_df' = results_df /\ outcome' # "crashed" ]_vars

\* C9: every table has exactly the five columns of the schema, in order, in every
\* row, and a frame just appended holds, per entry and column, the entry's value
\* for that column or a missing marker.
C9_FiveColumnsAlways ==
    /\ \A t \in TablesHeld :
          /\ t.columns = FiveColumns
          /\ \A k \in DOMAIN t.rows : DOMAIN t.rows[k] = Range(FiveColumns)
    /\ (pc = "batch_loop" /\ i > 0 /\ has_product_list(response)) =>
          LET frame == results_df[Len(results_df)]
              products == response.body.products
          IN /\ Len(frame.rows) = Len(products)
             /\ \A k \in DOMAIN products : \A c \in Range(FiveColumns) :
                   IF EntryValues(products[k], c) = {}
                   THEN frame.rows[k][c] \in MissingMarkers
                   ELSE frame.rows[k][c] \in EntryValues(products[k], c)

\* a Combined Table with a value, a NaN and a pd.NA in its rows
C9_Witness ==
    /\ outcome = "success"
    /\ \E k \in DOMAIN session_state.final_df.rows :
          LET row == session_state.final_df.rows[k]
          IN /\ row["gtin"] \notin MissingMarkers
             /\ row["validationErrors"] = NaN
             /\ row["gs1Licence.licenceKey"] = NA

\* C10: chunk_list yields ceil(L/N) batches, each non-empty, each of size N but
\* possibly the last, whose size is L mod N when that is not zero; the batches
\* yielded so far are a prefix of the list, and all of them are the list.
C10_ChunksPartitionTheList ==
    LET L == Len(lst)
    IN /\ \A k \in DOMAIN yielded : Len(yielded[k]) \in 1 .. n
       /\ \A k \in 1 .. Len(yielded) - 1 : Len(yielded[k]) = n
       /\ Flatten(yielded) = SubSeq(lst, 1, Min(ck_i, L))
       /\ ck_i >= L =>
             /\ Len(yielded) = CeilDiv(L, n)
             /\ Flatten(yielded) = lst
             /\ L = 0 => yielded = <<>>
             /\ (L > 0 /\ L % n # 0) => Len(yielded[Len(yielded)]) = L % n
             /\ (L > 0 /\ L % n = 0) => Len(yielded[Len(yielded)]) = n
             /\ chunk_list(lst, n) = yielded

\* eleven identifiers in chunks of 10: a full batch and a batch of one
C10_Witness ==
    /\ ck_i >= Len(lst) /\ n = 10 /\ Len(lst) = 11
    /\ Len(yielded) = 2 /\ Len(yielded[2]) = 1

----------------------------------------------------------------------------
(* C11..C19 *)

\* the first position of identifier x in list l
FirstIndex(l, x) == CHOOSE k \in DOMAIN l : l[k] = x /\ \A j \in 1 .. k - 1 : l[j] # x

\* C11: within a file the batches are requested one at a time in identifier
\* order: every request is for the batch at the loop's position (file_counter, i),
\* the position moves on only after the call for it returned or ran out, and
\* never moves back, so that all requests of a file precede those of the next;
\* a batch's frame is appended after the frames of the batches before it, and the
\* file's table holds the frames' records in that order.
C11_BatchesInOrder ==
    [][ /\ run_no' = run_no => file_counter' \in {file_counter, file_counter + 1}
        /\ (run_no' = run_no /\ file_counter' = file_counter) => i' \in {i, i + 1}
        /\ (file_counter' = file_counter /\ i' = i + 1) =>
              /\ pc = "handle" /\ attempt = 0
              /\ response = None \/ response.status # 503
        /\ NumRequests(call_log') > NumRequests(call_log) =>
              /\ pc = "post" /\ file_counter' = file_counter /\ i' = i
              /\ gtins = extract_gtins(read_file(CurrentFile),
                                       normalized_cols(read_file(CurrentFile))["gtin"])
              /\ NumRequests(call_log') = NumRequests(call_log) + 1
              /\ \E k \in DOMAIN call_log' :
                    /\ k > Len(call_log) /\ call_log'[k].event = "request"
                    /\ call_log'[k].body = SubSeq(gtins, 10 * i + 1, Min(10 * i + 10, Len(gtins)))
        /\ (results_df' # results_df /\ results_df' # <<>>) =>
              /\ pc = "handle" /\ i' = i + 1
              /\ Len(results_df') = Len(results_df) + 1
              /\ SubSeq(results_df', 1, Len(results_df)) = results_df
              /\ \A k \in DOMAIN results_df'[Len(results_df')].rows :
                    results_df'[Len(results_df')].rows[k]["gtin"]
                        \in Range(Chunks[i + 1]) \cup MissingMarkers
        /\ (run_no' = run_no /\ all_data' # all_data) =>
              LET t == all_data'[Len(all_data')]
                  named == {k \in DOMAIN t.rows : t.rows[k]["gtin"] \notin MissingMarkers}
              IN /\ all_data' = Append(all_data, t)
                 /\ t.rows = Flatten([k \in DOMAIN results_df |-> results_df[k].rows])
                 /\ \A k, l \in named :
                       k < l => FirstIndex(gtins, t.rows[k]["gtin"])
                                  <= FirstIndex(gtins, t.rows[l]["gtin"]) ]_vars

\* the table of the two-batch file: the record of batch 0 before that of batch 1
C11_Witness ==
    /\ pc = "file_loop" /\ all_data # <<>> /\ Len(gtins) = 11
    /\ LET t == all_data[Len(all_data)]
       IN /\ Len(t.rows) = 4
          /\ t.rows[1]["gtin"] = "b01" /\ t.rows[3]["gtin"] = "b11"

\* a file the loop left without a table: unreadable, no column, no identifier, or
\* no batch with a product list
SkippedSources == {k \in DOMAIN source_log : source_log[k].ids = 0 \/ ~source_log[k].listed}

\* C12: a run that finalized with success and no warning skipped no file and
\* lost no batch: whenever a batch gave no records because the retries ran out
\* or the status was not 200, or a file was skipped, the run reported a warning.
C12_LossIsWarned ==
    Finalized =>
        /\ (lost \/ SkippedSources # {}) => warnings # <<>>
        /\ (outcome = "success" /\ warnings = <<>>) => (~lost /\ SkippedSources = {})

\* the number of identifiers file f gives the batch loop
IdCount(f) ==
    IF ~readable(f) \/ "gtin" \notin DOMAIN normalized_cols(read_file(f)) THEN 0
    ELSE Len(extract_gtins(read_file(f), normalized_cols(read_file(f))["gtin"]))

\* C13: the files are visited once each in the order uploaded, whatever became
\* of the files before: the k-th file the loop leaves behind is the k-th
\* uploaded, and a run that has ended has taken every file from the list; it has
\* ended in success if a file yielded a table.
C13_EverySourceVisited ==
    /\ Len(source_log) <= Len(uploaded_files)
    /\ \A k \in DOMAIN source_log : source_log[k].ids = IdCount(uploaded_files[k])
    /\ RunEnded =>
          /\ file_counter = Len(uploaded_files)
          /\ all_data # <<>> => outcome = "success"

\* the headers of a frame that equal "gtin" whatever the case of their letters
GtinHeaders(df) == {c \in Range(df.columns) : c \in {"gtin", "Gtin", "GTIN", "gTIN", "GTin"}}

\* the script is in the batch loop of a file
InBatchLoop == pc \in {"batch_loop", "post", "handle", "end_file"}

LogOfLength(len, body) ==
    [k \in 1 .. len |-> IF k % 2 = 1 THEN [event |-> "request", attempt |-> (k - 1) \div 2, body |-> body]
                        ELSE [event |-> "sleep", attempt |-> (k - 2) \div 2,
                              secs |-> Delays[k \div 2]]]

\* the run's own variables at line 73, whatever st.session_state holds
FreshRun ==
    /\ all_data' = <<>> /\ individual_results' = <<>> /\ file_counter' = 0
    /\ results_df' = <<>> /\ call_log' = <<>> /\ warnings' = <<>>

\* C15: processing is a function of the file and of the values the remote calls
\* give: a run starts from empty collections and a file from an empty frame list
\* whatever st.session_state holds, the requests and sleeps of a call are fixed by
\* the batch and the number of outcomes received, every step of the batch loop
\* gives the frame list that the list before and the reply determine, and the
\* file's table is the concatenation of that list; st.session_state is written
\* by no step before line 128.
C15_RunIsFunctionOfInputAndReplies ==
    [][ /\ run_no' # run_no => FreshRun
        /\ (file_counter' # file_counter /\ pc' = "batch_loop") =>
              /\ results_df' = <<>> /\ i' = 0
              /\ gtins' = extract_gtins(read_file(uploaded_files[file_counter']),
                                        normalized_cols(read_file(uploaded_files[file_counter']))["gtin"])
        /\ pc' \in {"post", "handle"} =>
              call_log' = LogOfLength(Len(call_log'), SubSeq(gtins', 10 * i' + 1, Min(10 * i' + 10, Len(gtins'))))
        /\ (pc = "handle" /\ pc' = "batch_loop") =>
              results_df' = IF has_product_list(response)
                            THEN Append(results_df, normalize(response.body.products))
                            ELSE results_df
        /\ (pc = "end_file" /\ results_df # <<>>) =>
              all_data' = Append(all_data, pd_concat(results_df))
        /\ session_state' # session_state => (pc = "file_loop" /\ outcome' = "success") ]_vars

\* a second run is in a file's batch loop, with a frame appended, while
\* st.session_state holds the tables of an earlier run over a file of that name
C15_Witness ==
    /\ run_no = 2 /\ pc = "end_file" /\ results_df # <<>>
    /\ "final_df" \in DOMAIN session_state
    /\ session_state.individual_results[1].name = CurrentFile.name
    /\ Len(session_state.final_df.rows) > 0

\* the files of the run that gave the batch loop identifiers: not skipped as
\* unreadable, without the column or without identifiers
ProcessedSources == {k \in DOMAIN source_log : source_log[k].ids > 0}

\* C16: a run that has reached st.success or st.error has appended exactly one
\* usage record, and the record's file count is the number of files processed,
\* the skipped ones left out.
C16_OneUsageRecordPerRun ==
    Finalized =>
        /\ Len(usage_log) = 1
        /\ usage_log[1].file_count = Cardinality(ProcessedSources)

RECURSIVE SumSeq(_)
SumSeq(q) == IF q = <<>> THEN 0 ELSE Head(q) + SumSeq(Tail(q))

\* the attempts of the current call that failed transiently: every attempt
\* requested but the one whose response was returned
FailedAttempts ==
    LET asked == [k \in 1 .. NumRequests(call_log) |-> k - 1]
    IN IF pc = "handle" /\ response # None
       THEN SubSeq(asked, 1, Len(asked) - 1)
       ELSE asked

\* C17: in a call of post_with_retry the time slept so far is the sum of 2^a
\* over the attempts a that failed transiently; it is at most 31, and 31 exactly
\* when all 5 attempts failed; the call that ran out slept 16 after its fifth
\* request and made no request after that sleep.
C17_TotalBackoff ==
    pc \in {"post", "handle"} =>
        LET total == SumSeq(SleepsOf(call_log))
        IN /\ total = SumSeq([k \in DOMAIN FailedAttempts |-> 2 ^ FailedAttempts[k]])
           /\ total <= 31
           /\ total = 31 <=> Len(FailedAttempts) = 5
           /\ (pc = "handle" /\ response = None) =>
                 /\ total = 31
                 /\ NumRequests(call_log) = 5
                 /\ call_log[Len(call_log)] = [event |-> "sleep", attempt |-> 4, secs |-> 16]
                 /\ call_log[Len(call_log) - 1].event = "request"

\* the call for a batch has run out: 1 + 2 + 4 + 8 + 16 slept, the last of
\* them after the fifth request
C17_Witness ==
    /\ pc = "handle" /\ response = None
    /\ SleepsOf(call_log) = <<1, 2, 4, 8, 16>>
    /\ call_log[Len(call_log)].event = "sleep"

\* C18: after a batch the status line gives as processed the number of
\* identifiers in the batches dealt with so far, which is never more than the
\* file has, and a percentage of at most 100.
C18_ProcessedCountIsExact ==
    (pc = "batch_loop" /\ i > 0) =>
        /\ status_text.total = Len(gtins)
        /\ status_text.processed = Len(Flatten(SubSeq(Chunks, 1, i)))
        /\ status_text.processed <= Len(gtins)
        /\ status_text.percent <= 100 * 100

\* C19: after batch i of a file of L >= 1 identifiers the value given to the
\* progress bar is min((i + 1) / max(1, L / 10), 1): it is above 0 and at most 1,
\* does not go down from one batch to the next, is below 1 after every batch but
\* the last and 1 after the last, whatever the batches returned.
C19_BarValue ==
    [][ /\ (pc = "batch_loop" /\ i > 0) =>
              LET L == Len(gtins)
                  last == i = CeilDiv(L, 10)
              IN /\ L >= 1 /\ i <= CeilDiv(L, 10)
                 /\ progress.den > 0 /\ progress.num > 0 /\ progress.num <= progress.den
                 /\ IF i * 10 >= L THEN progress.num = progress.den
                    ELSE progress.num * L = i * 10 * progress.den
                 /\ last <=> progress.num = progress.den
        /\ (pc = "handle" /\ pc' = "batch_loop" /\ i > 0) =>
              progress.num * progress'.den <= progress'.num * progress.den ]_vars

\* 21 identifiers, no batch with a frame: 20/21 after the second batch of three
C19_Witness ==
    /\ pc = "batch_loop" /\ i = 2 /\ Len(gtins) = 21 /\ results_df = <<>>
    /\ progress.num * 21 = 20 * progress.den

====
